---- MODULE Spec2Model ----
(***************************************************************************)
(* A model of main.py: the per-user recording sessions (user_sessions),    *)
(* the message handler (handle_message) run by concurrent request threads, *)
(* the "end" pipeline (analysis, folder resolution, archival, calendar)    *)
(* and the helpers it calls.  A handler thread takes one step per shared   *)
(* access (the session dictionary, local files, the Drive folder tree) or  *)
(* external call; everything an external service may do (raise, return a   *)
(* blocked or malformed answer) is a nondeterministic choice.              *)
(***************************************************************************)
EXTENDS Integers, Sequences, FiniteSets, TLC

\* ----------------------------------------------------------------- bounds
MaxEvents == 3      \* message events handled in one behaviour
MaxRunEvents == 6   \* message events handled in one behaviour of the two-session environment
MaxTexts == 2       \* texts buffered in one session
MaxFiles == 1       \* attachments buffered in one session
MaxDrafts == 2      \* calendar drafts in one analysis result
MaxClock == 1       \* clock seconds that pass in one behaviour
MaxFolders == 4     \* folders created under the root
MaxLen == 4         \* tokens of a service response (analyzer specification)
MaxCalls == 3       \* resolver calls (resolver specification)
MaxFairEvents == 4  \* message events handled in one behaviour with fair threads
MaxAttachmentEvents == 5  \* message events handled in one behaviour of the attachment environment
MaxPieces == 3      \* pieces of a message text (command specification)

\* ------------------------------------------------------ program constants
RETRIES == 3        \* retry(func, retries=3, delay=2)

Users == {"u1", "u2"}
Threads == {1, 2}
Texts == {"t1", "t2"}
ROOT == 0           \* GDRIVE_FOLDER_ID, the root of the taxonomy

DEFAULT_CONTEXT == "unnamed"    \* the placeholder label of a start without a name
GivenContext == "X"
Contexts == {GivenContext, DEFAULT_CONTEXT}

\* -------------------------------------------------------- analysis result
\* A service response is a sequence of tokens: FENCE is the three-backtick
\* marker, TAG the word json, WS white space, JUNK text that is no JSON,
\* OBJ a JSON object and NUM a JSON value that is no object.
Tokens == {"FENCE", "TAG", "WS", "JUNK", "OBJ", "NUM"}
FieldNames == {"source", "category", "summary", "tags", "calendar_events"}

\* What json.loads yields: a dict (with the fields it has), or a scalar.
Dict(src, cat, fields, n) ==
    [kind |-> "dict", source |-> src, category |-> cat, fields |-> fields, events |-> n]
Scalar == [kind |-> "scalar", source |-> "", category |-> "", fields |-> {}, events |-> 0]
NoResult == [kind |-> "none", source |-> "", category |-> "", fields |-> {}, events |-> 0]

FallbackBlocked(context_name) == Dict(context_name, "unclassified", FieldNames, 0)

FallbackError(context_name) == Dict(context_name, "error", FieldNames, 0)

RECURSIVE LStrip(_)
LStrip(s) == IF s # <<>> /\ Head(s) = "WS" THEN LStrip(Tail(s)) ELSE s

RECURSIVE RStrip(_)
RStrip(s) == IF s # <<>> /\ s[Len(s)] = "WS" THEN RStrip(SubSeq(s, 1, Len(s) - 1)) ELSE s

Strip(s) == RStrip(LStrip(s))

FencePositions(s) == {i \in 1..Len(s) : s[i] = "FENCE"}

Min(S) == CHOOSE x \in S : \A y \in S : x <= y

\* re.search(r'```(?:json)?(.*?)```', text, re.DOTALL): the leftmost opening
\* fence, an optional tag right after it, then the shortest text up to the
\* next fence.
FenceMatch(s) ==
    LET open == Min(FencePositions(s))
        close == Min(FencePositions(s) \ {open})
        from == IF open + 1 < close /\ s[open + 1] = "TAG" THEN open + 2 ELSE open + 1
    IN  SubSeq(s, from, close - 1)

clean_json_text(text) ==
    LET t == Strip(text)
    IN  IF FencePositions(t) # {} /\ Cardinality(FencePositions(t)) >= 2
        THEN Strip(FenceMatch(t))
        ELSE t

\* json.loads: white space around one value is accepted, anything else raises.
JsonParses(t) == Strip(t) \in {<<"OBJ">>, <<"NUM">>}

json_loads(t, obj) == IF Strip(t) = <<"OBJ">> THEN obj ELSE Scalar

\* A response: the call raises, or comes back blocked (no parts), or carries
\* a text; obj is the object an OBJ token of the text denotes.
RespRaise == [kind |-> "raise", text |-> <<>>, obj |-> NoResult]
RespBlocked == [kind |-> "blocked", text |-> <<>>, obj |-> NoResult]
RespText(text, obj) == [kind |-> "text", text |-> text, obj |-> obj]

\* The outcome of a call: it raised, or it returned value.
Raised == [raised |-> TRUE, value |-> NoResult]
Returned(value) == [raised |-> FALSE, value |-> value]

\* Lines 219-224, the body of the try block: generate_content raises, or the
\* response has no parts, or its text is cleaned and parsed (json.loads
\* raises on what is no JSON).
AnalyzeBody(context_name, resp) ==
    IF resp.kind = "raise" THEN Raised
    ELSE IF resp.kind = "blocked" THEN Returned(FallbackBlocked(context_name))
    ELSE IF JsonParses(clean_json_text(resp.text))
         THEN Returned(json_loads(clean_json_text(resp.text), resp.obj))
         ELSE Raised

\* analyze_batch_content as it would be without the except clause.
analyze_without_except(context_name, resp) == AnalyzeBody(context_name, resp)

\* Lines 218-235: the except clause turns every exception of the body into
\* the error fallback.
analyze_batch_content(context_name, resp) ==
    IF AnalyzeBody(context_name, resp).raised
    THEN Returned(FallbackError(context_name))
    ELSE AnalyzeBody(context_name, resp)

\* ------------------------------------------------------------------ state
VARIABLES
    user_sessions,  \* the dictionary user id -> session
    local,          \* local storage: path -> content
    clock,          \* int(time.time())
    folders,        \* the Drive folders below the root
    uploads,        \* the files created on Drive, in order
    calendar,       \* the number of events in the calendar
    th,             \* the request threads, each running handle_message
    nEvents,        \* message events received so far
    nSessions,      \* sessions started so far
    env,            \* the environment: who sends what, and what may fail
    runs,           \* per session, the pipeline runs that obtained it
    fn              \* the call checked by the function-level specifications

vars == <<user_sessions, local, clock, folders, uploads, calendar, th, nEvents, nSessions, env, runs, fn>>

Msg(kind, arg) == [kind |-> kind, arg |-> arg]
NoMsg == Msg("none", "")
Messages ==
    {Msg("start", c) : c \in {"", GivenContext}} \cup {Msg("end", "")}
        \cup {Msg("text", x) : x \in Texts} \cup {Msg("image", ""), Msg("file", "")}

\* A session; sid numbers the sessions in the order they were started and recv
\* is the texts received for it, in arrival order (both are bookkeeping of
\* the model, the code has neither).
NoSession == [active |-> FALSE, context |-> "", texts |-> <<>>, files |-> <<>>,
              sid |-> 0, recv |-> <<>>]

\* Local paths: the transcript chat_batch_<second>.txt and the attachments
\* /tmp/batch_<message id>.<ext>.
NoPath == <<"", 0, "">>
LogPath(second) == <<"chat_batch", second, "txt">>
Ext(kind) == IF kind = "image" THEN "jpg" ELSE "dat"
SavedPath(msg_id, kind) == <<"batch", msg_id, Ext(kind)>>
Paths ==
    {LogPath(c) : c \in 0..MaxClock}
        \cup {SavedPath(i, k) : i \in 1..MaxRunEvents, k \in {"image", "file"}}

NoFile == [kind |-> "none", sid |-> 0, context |-> "", texts |-> <<>>, msg_id |-> 0]
Transcript(session) ==
    [kind |-> "transcript", sid |-> session.sid, context |-> session.context,
     texts |-> session.texts, msg_id |-> 0]
Bytes(msg_id) ==
    [kind |-> "bytes", sid |-> 0, context |-> "", texts |-> <<>>, msg_id |-> msg_id]
Partial(msg_id) ==
    [kind |-> "partial", sid |-> 0, context |-> "", texts |-> <<>>, msg_id |-> msg_id]

IdleThread ==
    [pc |-> "idle", user |-> "", msg |-> NoMsg, msg_id |-> 0, session |-> NoSession,
     ai |-> NoResult, level |-> 0, parent |-> ROOT, folder_id |-> ROOT,
     log_filename |-> NoPath, saved_path |-> NoPath, idx |-> 0, ev_idx |-> 0,
     count |-> 0, cal_count |-> 0, sent |-> <<>>, outcome |-> "",
     calls |-> 0, svc_raised |-> 0, inserted |-> 0, cal_failed |-> FALSE,
     upload_failed |-> -1, returned |-> 0, replaced |-> NoSession]

Init ==
    /\ user_sessions = [u \in {} |-> NoSession]
    /\ local = [p \in Paths |-> NoFile]
    /\ clock = 0
    /\ folders = {}
    /\ uploads = <<>>
    /\ calendar = 0
    /\ th = [t \in Threads |-> IdleThread]
    /\ nEvents = 0
    /\ nSessions = 0
    /\ runs = [i \in 1..MaxRunEvents |-> 0]
    /\ env = [users |-> Users, msgs |-> Messages, budget |-> MaxEvents, faults |-> TRUE]
    /\ fn = [name |-> "none"]

\* -------------------------------------------------------- session manager
\* start_session as it would be if it created a session only for a user who
\* has none.
start_session_if_absent(store, user_id, context_name, sid) ==
    [u \in DOMAIN store \cup {user_id} |->
        IF u = user_id /\ u \notin DOMAIN store
        THEN [active |-> TRUE, context |-> context_name, texts |-> <<>>, files |-> <<>>,
              sid |-> sid, recv |-> <<>>]
        ELSE store[u]]

\* start_session as it would be if it kept the attachments of the session
\* it replaces.
start_session_keep_files(store, user_id, context_name, sid) ==
    [u \in DOMAIN store \cup {user_id} |->
        IF u = user_id
        THEN [active |-> TRUE, context |-> context_name, texts |-> <<>>,
              files |-> IF u \in DOMAIN store THEN store[u].files ELSE <<>>,
              sid |-> sid, recv |-> <<>>]
        ELSE store[u]]

start_session(store, user_id, context_name, sid) ==
    [u \in DOMAIN store \cup {user_id} |->
        IF u = user_id
        THEN [active |-> TRUE, context |-> context_name, texts |-> <<>>, files |-> <<>>,
              sid |-> sid, recv |-> <<>>]
        ELSE store[u]]

get_session(store, user_id) == IF user_id \in DOMAIN store THEN store[user_id] ELSE NoSession

\* The append of add_to_session (the guard of its first line is AddCheck).
add_to_session(store, user_id, text, file_path) ==
    [store EXCEPT ![user_id] =
        [@ EXCEPT !.texts = IF text # "" THEN Append(@, text) ELSE @,
                  !.files = IF file_path # NoPath THEN Append(@, file_path) ELSE @]]

\* end_session as it would be if it read the session and left it in the store.
end_session_get(store, user_id) == store

\* user_sessions.pop(user_id)
end_session(store, user_id) == [u \in DOMAIN store \ {user_id} |-> store[u]]

\* ------------------------------------------------------------ handle_message
IsStart(m) == m.kind = "start"
IsEnd(m) == m.kind = "end"
ContextOf(m) == IF m.arg = "" THEN DEFAULT_CONTEXT ELSE m.arg

Busy(t) == th[t].pc # "idle"

\* The exception handler of the pipeline: one failure notification is pushed.
Failed(r) == [r EXCEPT !.pc = "done", !.outcome = "failed", !.sent = Append(@, "fail")]

\* An exception that leaves handle_message: nothing is sent.
Crashed(r) == [r EXCEPT !.pc = "done", !.outcome = "crashed"]

Replied(r, what) == [r EXCEPT !.pc = "done", !.outcome = what, !.sent = Append(@, what)]

\* A request thread takes the next event; the idle thread of lowest number
\* does (idle threads are alike).
Takes(t) ==
    /\ th[t].pc = "idle"
    /\ \A o \in Threads : o < t => Busy(o)
    /\ nEvents < env.budget

Taken(t, u, m) ==
    [IdleThread EXCEPT !.user = u, !.msg = m, !.msg_id = nEvents + 1]

\* Lines 323-328: a start command.
HandleStart(t) ==
    /\ Takes(t)
    /\ \E u \in env.users, m \in env.msgs :
        /\ IsStart(m)
        /\ user_sessions' = start_session(user_sessions, u, ContextOf(m), nSessions + 1)
        /\ th' = [th EXCEPT ![t] =
                    Replied([Taken(t, u, m) EXCEPT !.replaced = get_session(user_sessions, u)],
                            "ack_start")]
    /\ nEvents' = nEvents + 1
    /\ nSessions' = nSessions + 1
    /\ UNCHANGED <<local, clock, folders, uploads, calendar, env, runs, fn>>

\* Lines 331-335 and 89: an end command, up to the test of end_session.
HandleEnd(t) ==
    /\ Takes(t)
    /\ \E u \in env.users, m \in env.msgs :
        /\ IsEnd(m)
        /\ th' = [th EXCEPT ![t] =
                    IF u \in DOMAIN user_sessions
                    THEN [Taken(t, u, m) EXCEPT !.pc = "end_pop"]
                    ELSE Replied(Taken(t, u, m), "no_session")]
    /\ nEvents' = nEvents + 1
    /\ UNCHANGED <<user_sessions, local, clock, folders, uploads, calendar, nSessions, env, runs, fn>>

\* Lines 90 and 337: the pop of end_session, then the processing reply.
EndPop(t) ==
    /\ th[t].pc = "end_pop"
    /\ LET r == th[t] IN
        IF r.user \in DOMAIN user_sessions
        THEN /\ user_sessions' = end_session(user_sessions, r.user)
             /\ runs' = [runs EXCEPT ![user_sessions[r.user].sid] = @ + 1]
             /\ th' = [th EXCEPT ![t] =
                        [r EXCEPT !.pc = "analyze", !.session = user_sessions[r.user],
                                  !.sent = Append(@, "processing")]]
        ELSE /\ th' = [th EXCEPT ![t] = Crashed(r)]
             /\ UNCHANGED <<user_sessions, runs>>
    /\ UNCHANGED <<local, clock, folders, uploads, calendar, nEvents, nSessions, env, fn>>

\* ------------------------------------------------------------ the pipeline
\* What the analysis service may answer in a pipeline run: the call raises, the
\* output is blocked, the text is no JSON, a JSON scalar, or the object the
\* prompt asks for (bare or fenced), with some drafts or without a summary.
ServiceObjects(ctx) ==
    {Dict(ctx, "meeting", FieldNames, n) : n \in 0..MaxDrafts}
        \cup {Dict(ctx, "meeting", FieldNames \ {"summary"}, 0)}

ServiceResponses(ctx) ==
    {RespRaise, RespBlocked, RespText(<<"JUNK">>, NoResult), RespText(<<"NUM">>, NoResult)}
        \cup {RespText(<<"OBJ">>, o) : o \in ServiceObjects(ctx)}
        \cup {RespText(<<"FENCE", "TAG", "OBJ", "FENCE">>, o) : o \in ServiceObjects(ctx)}

\* In an environment without faults the service answers with that object,
\* without drafts, and no external call raises.
Answers(ctx) ==
    IF env.faults THEN ServiceResponses(ctx)
    ELSE {RespText(<<"OBJ">>, Dict(ctx, "meeting", FieldNames, 0))}

MayRaise == env.faults

\* ai_result.get("source") and ai_result.get("category", default)
SourceOf(ai) == IF "source" \in ai.fields THEN ai.source ELSE "None"
CategoryOf(ai) == IF "category" \in ai.fields THEN ai.category ELSE "misc"

\* Line 367: ai_result.get("calendar_events") is a non-empty list.
HasEvents(ai) == "calendar_events" \in ai.fields /\ ai.events > 0

\* After the last file: line 366-368, the calendar step or the reply.
ToCalendar(r) ==
    IF HasEvents(r.ai)
    THEN [r EXCEPT !.pc = "cal_build", !.count = 0, !.cal_count = 0]
    ELSE [r EXCEPT !.pc = "reply", !.cal_count = 0]

\* Lines 361-363: the next attachment, if any.
NextFile(r) ==
    IF r.idx < Len(r.session.files)
    THEN [r EXCEPT !.pc = "upload", !.idx = r.idx + 1]
    ELSE ToCalendar(r)

\* The step as it would be if the transcript were written whether or not a
\* text was buffered.
Resolved_always_transcript(r, id) ==
    IF "summary" \notin r.ai.fields THEN Failed([r EXCEPT !.folder_id = id])
    ELSE [r EXCEPT !.folder_id = id, !.pc = "log_write", !.idx = 0]

\* Lines 345-350: the category folder is known; the description needs the
\* summary (ai_result['summary'] raises KeyError without one); then the
\* transcript, if any text was buffered.
Resolved(r, id) ==
    IF "summary" \notin r.ai.fields THEN Failed([r EXCEPT !.folder_id = id])
    ELSE IF r.session.texts # <<>>
         THEN [r EXCEPT !.folder_id = id, !.pc = "log_write", !.idx = 0]
         ELSE NextFile([r EXCEPT !.folder_id = id, !.idx = 0])

\* get_target_folder_id as it would be if it returned the source folder.
Got_source_folder(r, id) == Resolved(r, id)

\* get_target_folder_id, lines 283-285: the source folder, then the category
\* folder below it.
Got(r, id) ==
    IF r.level = 1
    THEN [r EXCEPT !.pc = "search", !.level = 2, !.parent = id]
    ELSE Resolved(r, id)

FolderName(r) == IF r.level = 1 THEN SourceOf(r.ai) ELSE CategoryOf(r.ai)

\* Lines 341-345 and 114-121: one attempt of retry(analyze_batch_content): when
\* the call raises it is made again, and the RETRIES-th raise ends the
\* pipeline; when it returns, get_drive_service and the arguments of
\* get_target_folder_id follow (.get raises on what is no dict).
Analyze(t) ==
    /\ th[t].pc = "analyze"
    /\ \E resp \in Answers(th[t].session.context), drive_ok \in {TRUE, ~MayRaise} :
        LET r == [th[t] EXCEPT !.calls = @ + 1,
                               !.svc_raised = @ + (IF resp.kind = "raise" THEN 1 ELSE 0)]
            out == analyze_batch_content(r.session.context, resp)
            res == out.value
        IN  th' = [th EXCEPT ![t] =
                IF out.raised
                THEN IF r.calls >= RETRIES THEN Failed(r) ELSE r
                ELSE IF ~drive_ok \/ res.kind # "dict" THEN Failed([r EXCEPT !.ai = res])
                ELSE [r EXCEPT !.ai = res, !.pc = "search", !.level = 1, !.parent = ROOT]]
    /\ UNCHANGED <<user_sessions, local, clock, folders, uploads, calendar, nEvents, nSessions, env, runs, fn>>

\* The search as it would be with the trashed flag of the query inverted.
Matches_trashed(fs, parent_id, folder_name) ==
    {f \in fs : f.parent = parent_id /\ f.name = folder_name /\ f.trashed}

\* get_or_create_folder, lines 273-276: folders of that name under the parent,
\* not trashed; the first of them, whichever the service lists first.
Matches(fs, parent_id, folder_name) ==
    {f \in fs : f.parent = parent_id /\ f.name = folder_name /\ ~f.trashed}

\* The creation as it would be if the service kept names unique under a
\* parent, handing back the folder that is there.
NewFolder_unique_name(fs, parent_id, folder_name) ==
    IF Matches(fs, parent_id, folder_name) # {}
    THEN CHOOSE f \in Matches(fs, parent_id, folder_name) : TRUE
    ELSE [id |-> Cardinality(fs) + 1, parent |-> parent_id, name |-> folder_name,
          trashed |-> FALSE]

\* Lines 278-280: the folder created, with a new identifier.
NewFolder(fs, parent_id, folder_name) ==
    [id |-> Cardinality(fs) + 1, parent |-> parent_id, name |-> folder_name, trashed |-> FALSE]

\* get_or_create_folder run without interruption, lines 272-280: every way it
\* can end from the folder tree fs.  id is 0 when a call raised.
get_or_create_folder(fs, parent_id, folder_name) ==
    {[folders |-> fs, id |-> f.id, created |-> 0] : f \in Matches(fs, parent_id, folder_name)}
        \cup {[folders |-> fs \cup {NewFolder(fs, parent_id, folder_name)},
               id |-> NewFolder(fs, parent_id, folder_name).id, created |-> 1] :
                 x \in IF Matches(fs, parent_id, folder_name) = {} THEN {1} ELSE {}}
        \cup {[folders |-> fs, id |-> 0, created |-> 0]}

\* get_target_folder_id run without interruption, lines 282-285: the source
\* level, then (CategoryLevel) the category level below the folder it gave;
\* created is the number of folders created at each of the two levels.
CategoryLevel(s, category_name) ==
    IF s.id = 0 THEN {[s EXCEPT !.created = <<s.created, 0>>]}
    ELSE {[c EXCEPT !.created = <<s.created, c.created>>] :
            c \in get_or_create_folder(s.folders, s.id, category_name)}

get_target_folder_id(fs, root_id, source_name, category_name) ==
    UNION {CategoryLevel(s, category_name) :
            s \in get_or_create_folder(fs, root_id, source_name)}

Search(t) ==
    /\ th[t].pc = "search"
    /\ LET r == th[t]
           found == Matches(folders, r.parent, FolderName(r))
       IN  \/ /\ MayRaise
              /\ th' = [th EXCEPT ![t] = Failed(r)]
           \/ /\ found = {}
              /\ th' = [th EXCEPT ![t] = [r EXCEPT !.pc = "create"]]
           \/ \E f \in found : th' = [th EXCEPT ![t] = Got(r, f.id)]
    /\ UNCHANGED <<user_sessions, local, clock, folders, uploads, calendar, nEvents, nSessions, env, runs, fn>>

Create(t) ==
    /\ th[t].pc = "create"
    /\ LET r == th[t]
           f == NewFolder(folders, r.parent, FolderName(r))
       IN  \/ /\ MayRaise
              /\ th' = [th EXCEPT ![t] = Failed(r)]
              /\ UNCHANGED folders
           \/ /\ Cardinality(folders) < MaxFolders
              /\ folders' = folders \cup {f}
              /\ th' = [th EXCEPT ![t] = Got(r, f.id)]
    /\ UNCHANGED <<user_sessions, local, clock, uploads, calendar, nEvents, nSessions, env, runs, fn>>

\* Lines 351-356: the transcript is written under the name of this second.
LogWrite(t) ==
    /\ th[t].pc = "log_write"
    /\ LET r == th[t] IN
        /\ local' = [local EXCEPT ![LogPath(clock)] = Transcript(r.session)]
        /\ th' = [th EXCEPT ![t] = [r EXCEPT !.pc = "upload", !.log_filename = LogPath(clock)]]
    /\ UNCHANGED <<user_sessions, clock, folders, uploads, calendar, nEvents, nSessions, env, runs, fn>>

\* The file the archiver is at: the transcript (0), or the idx-th attachment.
CurPath(r) == IF r.idx = 0 THEN r.log_filename ELSE r.session.files[r.idx]

\* upload_file_to_drive, lines 287-290 (called at 357 and 362): it raises when
\* the local file is missing, or when the service does.
Upload(t) ==
    /\ th[t].pc = "upload"
    /\ LET r == th[t]
           p == CurPath(r)
           bad == Failed([r EXCEPT !.upload_failed = r.idx])
       IN  \/ /\ MayRaise \/ local[p] = NoFile
              /\ th' = [th EXCEPT ![t] = bad]
              /\ UNCHANGED uploads
           \/ /\ local[p] # NoFile
              /\ uploads' = Append(uploads, [folder |-> r.folder_id, name |-> p, content |-> local[p]])
              /\ th' = [th EXCEPT ![t] = [r EXCEPT !.pc = "remove", !.returned = @ + 1]]
    /\ UNCHANGED <<user_sessions, local, clock, folders, calendar, nEvents, nSessions, env, runs, fn>>

\* os.remove, lines 358 and 363: it raises when the file is missing.
Remove(t) ==
    /\ th[t].pc = "remove"
    /\ LET r == th[t]
           p == CurPath(r)
       IN  IF local[p] = NoFile
           THEN /\ th' = [th EXCEPT ![t] = Failed(r)]
                /\ UNCHANGED local
           ELSE /\ local' = [local EXCEPT ![p] = NoFile]
                /\ th' = [th EXCEPT ![t] = NextFile(r)]
    /\ UNCHANGED <<user_sessions, clock, folders, uploads, calendar, nEvents, nSessions, env, runs, fn>>

\* add_calendar_events, lines 268-270: what it returns when any call in its
\* try block raised, count events having been inserted.
OnCalendarError(count) == 0

\* The calendar step as it would be without its own try/except: the
\* exception reaches the handler of the pipeline.
CalendarRaised(r) == Failed([r EXCEPT !.cal_failed = TRUE])

\* Lines 268-270 and 368: the except clause of add_calendar_events; the
\* pipeline goes on to its reply.
CalendarFailed(r) ==
    [r EXCEPT !.pc = "reply", !.cal_failed = TRUE, !.cal_count = OnCalendarError(r.count)]

\* Line 247: get_calendar_service, inside the try block.
CalBuild(t) ==
    /\ th[t].pc = "cal_build"
    /\ LET r == th[t] IN
        \/ th' = [th EXCEPT ![t] = [r EXCEPT !.pc = "cal_insert", !.ev_idx = 1]]
        \/ /\ MayRaise
           /\ th' = [th EXCEPT ![t] = CalendarFailed(r)]
    /\ UNCHANGED <<user_sessions, local, clock, folders, uploads, calendar, nEvents, nSessions, env, runs, fn>>

\* Lines 249-267: the insertion of the ev_idx-th draft.
CalInsert(t) ==
    /\ th[t].pc = "cal_insert"
    /\ LET r == th[t] IN
        \/ /\ calendar' = calendar + 1
           /\ th' = [th EXCEPT ![t] =
                IF r.ev_idx = r.ai.events
                THEN [r EXCEPT !.pc = "reply", !.count = @ + 1, !.inserted = @ + 1,
                               !.cal_count = r.count + 1]
                ELSE [r EXCEPT !.ev_idx = @ + 1, !.count = @ + 1, !.inserted = @ + 1]]
        \/ /\ MayRaise
           /\ th' = [th EXCEPT ![t] = CalendarFailed(r)]
           /\ UNCHANGED calendar
    /\ UNCHANGED <<user_sessions, local, clock, folders, uploads, nEvents, nSessions, env, runs, fn>>

\* Lines 371-375: the completion reply.
Reply(t) ==
    /\ th[t].pc = "reply"
    /\ th' = [th EXCEPT ![t] = Replied(th[t], "completion")]
    /\ UNCHANGED <<user_sessions, local, clock, folders, uploads, calendar, nEvents, nSessions, env, runs, fn>>

\* ------------------------------------------------------------------ content
\* The else branch as it would be if it answered every kind of message.
NotRecording_any_kind(r) == Replied(r, "remind")

\* Lines 399-402: no active session; a text is answered with the reminder,
\* an image or a file with nothing, and nothing is downloaded.
NotRecording(r) ==
    IF r.msg.kind = "text" THEN Replied(r, "remind")
    ELSE [r EXCEPT !.pc = "done", !.outcome = "ignored"]

\* Lines 383-402: a message that is no command; get_session.  While recording
\* a text goes on to add_to_session and an attachment is downloaded first;
\* otherwise a text is answered with the reminder.
HandleContent(t) ==
    /\ Takes(t)
    /\ \E u \in env.users, m \in env.msgs :
        LET s == get_session(user_sessions, u)
            r == Taken(t, u, m)
        IN  /\ ~IsStart(m) /\ ~IsEnd(m)
            /\ IF s.active
               THEN /\ m.kind = "text" => Len(s.texts) < MaxTexts
                    /\ m.kind # "text" => Len(s.files) < MaxFiles
                    /\ th' = [th EXCEPT ![t] =
                        [r EXCEPT !.pc = IF m.kind = "text" THEN "add_check" ELSE "download"]]
                    /\ user_sessions' =
                        IF m.kind = "text"
                        THEN [user_sessions EXCEPT ![u].recv = Append(@, m.arg)]
                        ELSE user_sessions
               ELSE /\ th' = [th EXCEPT ![t] = NotRecording(r)]
                    /\ UNCHANGED user_sessions
    /\ nEvents' = nEvents + 1
    /\ UNCHANGED <<local, clock, folders, uploads, calendar, nSessions, env, runs, fn>>

\* Lines 389-394: the attachment is written to /tmp; when the transport
\* raises, the file just opened stays behind and the handler is left.
Download(t) ==
    /\ th[t].pc = "download"
    /\ LET r == th[t]
           p == SavedPath(r.msg_id, r.msg.kind)
       IN  \/ /\ local' = [local EXCEPT ![p] = Bytes(r.msg_id)]
              /\ th' = [th EXCEPT ![t] = [r EXCEPT !.pc = "add_check", !.saved_path = p]]
           \/ /\ MayRaise
              /\ local' = [local EXCEPT ![p] = Partial(r.msg_id)]
              /\ th' = [th EXCEPT ![t] = Crashed([r EXCEPT !.saved_path = p])]
    /\ UNCHANGED <<user_sessions, clock, folders, uploads, calendar, nEvents, nSessions, env, runs, fn>>

\* Line 83: add_to_session returns False when the user has no session.
AddCheck(t) ==
    /\ th[t].pc = "add_check"
    /\ th' = [th EXCEPT ![t] =
                IF th[t].user \in DOMAIN user_sessions
                THEN [th[t] EXCEPT !.pc = "add_append"]
                ELSE [th[t] EXCEPT !.pc = "done", !.outcome = "dropped"]]
    /\ UNCHANGED <<user_sessions, local, clock, folders, uploads, calendar, nEvents, nSessions, env, runs, fn>>

\* Lines 84-86: the append; user_sessions[user_id] raises KeyError when the
\* session was popped since the test.
AddAppend(t) ==
    /\ th[t].pc = "add_append"
    /\ LET r == th[t] IN
        IF r.user \in DOMAIN user_sessions
        THEN /\ user_sessions' = add_to_session(user_sessions, r.user,
                                    IF r.msg.kind = "text" THEN r.msg.arg ELSE "", r.saved_path)
             /\ th' = [th EXCEPT ![t] = [r EXCEPT !.pc = "done", !.outcome = "buffered"]]
        ELSE /\ th' = [th EXCEPT ![t] = Crashed(r)]
             /\ UNCHANGED user_sessions
    /\ UNCHANGED <<local, clock, folders, uploads, calendar, nEvents, nSessions, env, runs, fn>>

\* handle_message has returned; the thread is free again.
Return(t) ==
    /\ th[t].pc = "done"
    /\ th' = [th EXCEPT ![t] = IdleThread]
    /\ UNCHANGED <<user_sessions, local, clock, folders, uploads, calendar, nEvents, nSessions, env, runs, fn>>

\* A second passes.
Tick ==
    /\ clock < MaxClock
    /\ clock' = clock + 1
    /\ UNCHANGED <<user_sessions, local, folders, uploads, calendar, th, nEvents, nSessions, env, runs, fn>>

Next ==
    \/ \E t \in Threads :
        \/ HandleStart(t)
        \/ HandleEnd(t)
        \/ EndPop(t)
        \/ Analyze(t)
        \/ Search(t)
        \/ Create(t)
        \/ LogWrite(t)
        \/ Upload(t)
        \/ Remove(t)
        \/ CalBuild(t)
        \/ CalInsert(t)
        \/ Reply(t)
        \/ HandleContent(t)
        \/ Download(t)
        \/ AddCheck(t)
        \/ AddAppend(t)
        \/ Return(t)
    \/ Tick

Spec == Init /\ [][Next]_vars

\* ------------------------------------------------- two recorded sessions
\* The same program in a narrower environment, long enough for two sessions
\* to be recorded and ended: every message is start X, one text or end, no
\* external call raises, and all of it happens within one clock second.
RunMessages == {Msg("start", GivenContext), Msg("text", "t1"), Msg("end", "")}

InitRuns ==
    /\ user_sessions = [u \in {} |-> NoSession]
    /\ local = [p \in Paths |-> NoFile]
    /\ clock = 0
    /\ folders = {}
    /\ uploads = <<>>
    /\ calendar = 0
    /\ th = [t \in Threads |-> IdleThread]
    /\ nEvents = 0
    /\ nSessions = 0
    /\ runs = [i \in 1..MaxRunEvents |-> 0]
    /\ env = [users |-> Users, msgs |-> RunMessages, budget |-> MaxRunEvents, faults |-> FALSE]
    /\ fn = [name |-> "none"]

NextRuns ==
    \/ \E t \in Threads :
        \/ HandleStart(t)
        \/ HandleEnd(t)
        \/ EndPop(t)
        \/ Analyze(t)
        \/ Search(t)
        \/ Create(t)
        \/ LogWrite(t)
        \/ Upload(t)
        \/ Remove(t)
        \/ Reply(t)
        \/ HandleContent(t)
        \/ AddCheck(t)
        \/ AddAppend(t)
        \/ Return(t)

SpecRuns == InitRuns /\ [][NextRuns]_vars

\* ------------------------------------------------ the analyzer on its own
\* analyze_batch_content called once on a context label and a response: any
\* token sequence of at most MaxLen tokens, a blocked answer or a raise.
TokenSeqs == UNION {[1..n -> Tokens] : n \in 0..MaxLen}

AnalyzerInputs(ctx) ==
    {RespRaise, RespBlocked}
        \cup {RespText(t, Dict("Y", "meeting", FieldNames, 1)) : t \in TokenSeqs}

Quiet ==
    /\ user_sessions = [u \in {} |-> NoSession]
    /\ local = [p \in Paths |-> NoFile]
    /\ clock = 0
    /\ uploads = <<>>
    /\ calendar = 0
    /\ th = [t \in Threads |-> IdleThread]
    /\ nEvents = 0
    /\ nSessions = 0
    /\ runs = [i \in 1..MaxRunEvents |-> 0]
    /\ env = [users |-> Users, msgs |-> Messages, budget |-> MaxEvents, faults |-> TRUE]

InitAnalyze ==
    /\ Quiet
    /\ folders = {}
    /\ \E c \in Contexts : \E r \in AnalyzerInputs(c) :
        fn = [name |-> "analyze", context |-> c, resp |-> r, done |-> FALSE, out |-> Raised]

CallAnalyze ==
    /\ fn.name = "analyze" /\ ~fn.done
    /\ fn' = [fn EXCEPT !.done = TRUE, !.out = analyze_batch_content(fn.context, fn.resp)]
    /\ UNCHANGED <<user_sessions, local, clock, folders, uploads, calendar, th, nEvents,
                   nSessions, env, runs>>

NextAnalyze == CallAnalyze

SpecAnalyze == InitAnalyze /\ [][NextAnalyze]_vars

\* ------------------------------------------------ the resolver on its own
\* get_target_folder_id called again and again, one call after the other, on
\* a folder tree that starts empty; the owner of the Drive may trash a folder
\* between two calls.
Sources == Contexts
Categories == {"meeting", "error"}

InitResolver ==
    /\ Quiet
    /\ folders = {}
    /\ fn = [name |-> "resolver", calls |-> 0, args |-> <<"", "">>, last |-> 0, prev |-> 0,
             created |-> <<0, 0>>, prev_created |-> <<0, 0>>, repeat |-> FALSE,
             touched |-> FALSE]

\* One call.  repeat: it follows a call with the same arguments that returned,
\* with nothing trashed in between, and returns too.
ResolverCall ==
    /\ fn.name = "resolver" /\ fn.calls < MaxCalls
    /\ \E src \in Sources, cat \in Categories :
        \E o \in get_target_folder_id(folders, ROOT, src, cat) :
            /\ Cardinality(o.folders) <= MaxFolders
            /\ folders' = o.folders
            /\ fn' = [fn EXCEPT !.calls = @ + 1, !.args = <<src, cat>>,
                                !.prev = fn.last, !.last = o.id,
                                !.prev_created = fn.created, !.created = o.created,
                                !.repeat = (fn.args = <<src, cat>> /\ fn.last # 0
                                            /\ ~fn.touched /\ o.id # 0),
                                !.touched = FALSE]
    /\ UNCHANGED <<user_sessions, local, clock, uploads, calendar, th, nEvents, nSessions,
                   env, runs>>

Trash ==
    /\ fn.name = "resolver"
    /\ \E f \in folders :
        /\ ~f.trashed
        /\ folders' = (folders \ {f}) \cup {[f EXCEPT !.trashed = TRUE]}
    /\ fn' = [fn EXCEPT !.touched = TRUE]
    /\ UNCHANGED <<user_sessions, local, clock, uploads, calendar, th, nEvents, nSessions,
                   env, runs>>

NextResolver == ResolverCall \/ Trash

SpecResolver == InitResolver /\ [][NextResolver]_vars

\* ------------------------------------------- command recognition on its own
\* The text of a message is a sequence of pieces: WS is a space, KAISHI and
\* JIESHU are the native start and end words, start and end the English words
\* in lower case, START and END the same words with upper-case letters, and x
\* is any other text without a space.
Pieces == {"WS", "KAISHI", "JIESHU", "start", "START", "end", "END", "x"}

MessageTexts == UNION {[1..n -> Pieces] : n \in 0..MaxPieces}

\* str.lower()
lower(text) ==
    [i \in DOMAIN text |->
        IF text[i] = "START" THEN "start" ELSE IF text[i] = "END" THEN "end" ELSE text[i]]

\* str.startswith(word)
startswith(text, word) == text # <<>> /\ Head(text) = word

\* text.split(" ", 1): the parts before and after the first space.
FirstSpace(text) == Min({i \in 1..Len(text) : text[i] = "WS"})
split1(text) ==
    IF \E i \in 1..Len(text) : text[i] = "WS"
    THEN <<SubSeq(text, 1, FirstSpace(text) - 1), SubSeq(text, FirstSpace(text) + 1, Len(text))>>
    ELSE <<text>>

\* The recognizer as it would be if it compared the text as typed.
Command_as_typed(raw) ==
    LET text == Strip(raw) IN
        IF startswith(text, "KAISHI") \/ startswith(text, "start")
        THEN [kind |-> "start",
              context |-> IF Len(split1(text)) > 1 THEN split1(text)[2] ELSE <<DEFAULT_CONTEXT>>]
        ELSE IF text = <<"JIESHU">> \/ text = <<"end">>
             THEN [kind |-> "end", context |-> <<>>]
             ELSE [kind |-> "content", context |-> <<>>]

\* Lines 320-331: the branch handle_message takes on a text message, and the
\* context label of a start.
Command(raw) ==
    LET text == Strip(raw) IN
        IF startswith(text, "KAISHI") \/ startswith(lower(text), "start")
        THEN [kind |-> "start",
              context |-> IF Len(split1(text)) > 1 THEN split1(text)[2] ELSE <<DEFAULT_CONTEXT>>]
        ELSE IF text = <<"JIESHU">> \/ lower(text) = <<"end">>
             THEN [kind |-> "end", context |-> <<>>]
             ELSE [kind |-> "content", context |-> <<>>]

InitCommand ==
    /\ Quiet
    /\ folders = {}
    /\ \E x \in MessageTexts :
        fn = [name |-> "command", text |-> x, done |-> FALSE,
              out |-> [kind |-> "", context |-> <<>>]]

Recognize ==
    /\ fn.name = "command" /\ ~fn.done
    /\ fn' = [fn EXCEPT !.done = TRUE, !.out = Command(fn.text)]
    /\ UNCHANGED <<user_sessions, local, clock, folders, uploads, calendar, th, nEvents,
                   nSessions, env, runs>>

NextCommand == Recognize

SpecCommand == InitCommand /\ [][NextCommand]_vars

\* ------------------------------------------------- fair request threads
\* The environment of SpecRuns with fewer events, and request threads that
\* the host keeps running: a thread inside handle_message takes its next
\* step sooner or later (no step of the handler waits for another thread).
InitFair ==
    /\ user_sessions = [u \in {} |-> NoSession]
    /\ local = [p \in Paths |-> NoFile]
    /\ clock = 0
    /\ folders = {}
    /\ uploads = <<>>
    /\ calendar = 0
    /\ th = [t \in Threads |-> IdleThread]
    /\ nEvents = 0
    /\ nSessions = 0
    /\ runs = [i \in 1..MaxRunEvents |-> 0]
    /\ env = [users |-> Users, msgs |-> RunMessages, budget |-> MaxFairEvents, faults |-> FALSE]
    /\ fn = [name |-> "none"]

\* The steps of a thread that is inside handle_message.
Step(t) ==
    \/ EndPop(t)
    \/ Analyze(t)
    \/ Search(t)
    \/ Create(t)
    \/ LogWrite(t)
    \/ Upload(t)
    \/ Remove(t)
    \/ Reply(t)
    \/ AddCheck(t)
    \/ AddAppend(t)
    \/ Return(t)

NextFair ==
    \E t \in Threads :
        \/ HandleStart(t)
        \/ HandleEnd(t)
        \/ HandleContent(t)
        \/ Step(t)

SpecFair == InitFair /\ [][NextFair]_vars /\ \A t \in Threads : WF_vars(Step(t))

\* ------------------------------------------------------- retry on its own
\* retry(func) with a func that, at each call, raises or returns a value;
\* what it does at each of its calls is drawn at the start.
Values == {"a", "b", "c"}
FuncOutcomes == {"raise"} \cup Values
FuncBehaviours == [1..RETRIES -> FuncOutcomes]

InitRetry ==
    /\ Quiet
    /\ folders = {}
    /\ \E b \in FuncBehaviours :
        fn = [name |-> "retry", func |-> b, pc |-> "call", i |-> 0, calls |-> 0,
              delays |-> 0, result |-> ""]

\* Lines 115-117: the next iteration of the loop calls func; it returns its
\* value or goes to the except clause.
RetryCall ==
    /\ fn.name = "retry" /\ fn.pc = "call"
    /\ fn' = IF fn.func[fn.i + 1] = "raise"
             THEN [fn EXCEPT !.calls = @ + 1, !.pc = "except"]
             ELSE [fn EXCEPT !.calls = @ + 1, !.pc = "returned", !.result = fn.func[fn.i + 1]]
    /\ UNCHANGED <<user_sessions, local, clock, folders, uploads, calendar, th, nEvents,
                   nSessions, env, runs>>

\* Lines 115 and 121: after the sleep of iteration i (counted from 0), the
\* next iteration, or the RuntimeError when the range is exhausted.
AfterSleep(i) == IF i + 1 < RETRIES THEN "call" ELSE "raised"

\* Lines 118-120: the except clause logs and sleeps, whichever attempt failed.
RetrySleep ==
    /\ fn.name = "retry" /\ fn.pc = "except"
    /\ fn' = [fn EXCEPT !.delays = @ + 1, !.i = @ + 1, !.pc = AfterSleep(fn.i)]
    /\ UNCHANGED <<user_sessions, local, clock, folders, uploads, calendar, th, nEvents,
                   nSessions, env, runs>>

NextRetry == RetryCall \/ RetrySleep

SpecRetry == InitRetry /\ [][NextRetry]_vars

\* --------------------------------------------------- sessions of attachments
\* The same program in an environment of starts, images and ends, long enough
\* for a session to be replaced and the one after it to be archived; no
\* external call raises.
AttachmentMessages == {Msg("start", GivenContext), Msg("image", ""), Msg("end", "")}

InitAttachments ==
    /\ user_sessions = [u \in {} |-> NoSession]
    /\ local = [p \in Paths |-> NoFile]
    /\ clock = 0
    /\ folders = {}
    /\ uploads = <<>>
    /\ calendar = 0
    /\ th = [t \in Threads |-> IdleThread]
    /\ nEvents = 0
    /\ nSessions = 0
    /\ runs = [i \in 1..MaxRunEvents |-> 0]
    /\ env = [users |-> Users, msgs |-> AttachmentMessages, budget |-> MaxAttachmentEvents,
              faults |-> FALSE]
    /\ fn = [name |-> "none"]

NextAttachments ==
    \E t \in Threads :
        \/ HandleStart(t)
        \/ HandleEnd(t)
        \/ EndPop(t)
        \/ Analyze(t)
        \/ Search(t)
        \/ Create(t)
        \/ Upload(t)
        \/ Remove(t)
        \/ Reply(t)
        \/ HandleContent(t)
        \/ Download(t)
        \/ AddCheck(t)
        \/ AddAppend(t)
        \/ Return(t)

SpecAttachments == InitAttachments /\ [][NextAttachments]_vars

\* ================================================================== claims
StartStep(t) == th[t].pc = "idle" /\ th'[t].pc = "done" /\ th'[t].msg.kind = "start"

\* C1: a start command always succeeds, from Idle and from Recording alike:
\* right after it the user has a session that is active, carries the given
\* context label (the placeholder when none was given), has empty text and
\* attachment buffers and is a new one, the sessions of the other users are
\* as they were, and the acknowledgment is the one message sent.
C1_StartAlwaysSucceeds ==
    [][\A t \in Threads : StartStep(t) =>
        LET u == th'[t].user IN
            /\ u \in DOMAIN user_sessions'
            /\ user_sessions'[u].active
            /\ user_sessions'[u].context = ContextOf(th'[t].msg)
            /\ user_sessions'[u].texts = <<>>
            /\ user_sessions'[u].files = <<>>
            /\ \A v \in DOMAIN user_sessions : user_sessions[v].sid # user_sessions'[u].sid
            /\ \A v \in DOMAIN user_sessions' \ {u} :
                v \in DOMAIN user_sessions /\ user_sessions'[v] = user_sessions[v]
            /\ th'[t].sent = <<"ack_start">>]_vars

\* A start was handled for a user who was recording with a text buffered
\* under another label, and the session that replaced it is empty.
C1_Witness ==
    \E t \in Threads :
        /\ th[t].pc = "done" /\ th[t].msg.kind = "start"
        /\ th[t].replaced.texts # <<>>
        /\ th[t].replaced.context # ContextOf(th[t].msg)
        /\ user_sessions[th[t].user].texts = <<>>
        /\ user_sessions[th[t].user].context = ContextOf(th[t].msg)

Sids == 1..MaxRunEvents

\* C2: an end command removes the session from the store before any step of
\* the pipeline, so no session is obtained by more than one pipeline run,
\* however two end commands of the user interleave, and a session that a run
\* has obtained is in the store no more (the user is Idle unless a new start
\* came), whatever becomes of the run.
C2_EndPopsOnce ==
    \A s \in Sids :
        /\ runs[s] <= 1
        /\ runs[s] = 1 => \A u \in DOMAIN user_sessions : user_sessions[u].sid # s
        /\ \A t \in Threads : th[t].session.sid = s => runs[s] = 1

\* Two end commands of one user were handled at once: both found the session,
\* one obtained it and the other was left with nothing.
C2_Witness ==
    \E t1, t2 \in Threads :
        /\ t1 # t2
        /\ th[t1].msg.kind = "end" /\ th[t2].msg.kind = "end"
        /\ th[t1].user = th[t2].user
        /\ th[t1].session.sid > 0 /\ th[t1].pc \notin {"idle", "end_pop"}
        /\ th[t2].outcome = "crashed"
        /\ th[t1].user \notin DOMAIN user_sessions

\* C3 (as claimed; the code does otherwise): when the analysis service raises
\* on every attempt of an end pipeline, it is called RETRIES times and the
\* pipeline then ends with the failure notification, with no analysis result,
\* no folder looked up, nothing uploaded and no event inserted.
C3_RetriesThenAborts ==
    \A t \in Threads :
        (th[t].svc_raised > 0 /\ th[t].svc_raised = th[t].calls /\ th[t].pc # "analyze") =>
            /\ th[t].calls = RETRIES
            /\ th[t].pc = "done" /\ th[t].outcome = "failed"
            /\ th[t].ai = NoResult
            /\ th[t].returned = 0 /\ th[t].inserted = 0

\* Text in which nothing is a JSON value, fenced or not, or text without
\* fence markers that is not one JSON value.
NonJsonPayload(text) ==
    \/ \A i \in 1..Len(text) : text[i] \notin {"OBJ", "NUM"}
    \/ FencePositions(text) = {} /\ Strip(text) \notin {<<"OBJ">>, <<"NUM">>}

IsFallback(out, ctx, category) ==
    /\ ~out.raised
    /\ out.value.kind = "dict"
    /\ out.value.fields = FieldNames
    /\ out.value.category = category
    /\ out.value.source = ctx
    /\ out.value.events = 0

\* C4: on a blocked or empty response, and on a response that is no JSON, bare
\* or inside fence markers, analyze_batch_content returns without raising a
\* result with every field, the unclassified category (blocked) or the error
\* category (no JSON), the context label as source and no calendar event.
C4_FallbackResult ==
    (fn.name = "analyze" /\ fn.done) =>
        /\ fn.resp.kind = "blocked" => IsFallback(fn.out, fn.context, "unclassified")
        /\ (fn.resp.kind = "text" /\ NonJsonPayload(fn.resp.text)) =>
                IsFallback(fn.out, fn.context, "error")

\* The analyzer was given fenced text, tagged json, that is no JSON, and
\* returned the error fallback.
C4_Witness ==
    /\ fn.name = "analyze" /\ fn.done
    /\ fn.resp.kind = "text" /\ fn.resp.text = <<"FENCE", "TAG", "JUNK", "FENCE">>
    /\ IsFallback(fn.out, fn.context, "error")

\* C5 (as claimed; the code does otherwise): when an insertion raises,
\* add_calendar_events returns the number of events inserted before it.
C5_ReturnsCountSoFar ==
    \A t \in Threads :
        (th[t].cal_failed /\ th[t].pc \in {"reply", "done"}) =>
            th[t].cal_count = th[t].inserted

NFiles(r) == Len(r.session.files) + (IF r.session.texts # <<>> THEN 1 ELSE 0)

Names(ups) == {ups[i].name : i \in DOMAIN ups}

\* C6: a failure of the calendar step (the client cannot be built, or an
\* insertion raises) changes nothing of the archival: every file of the batch
\* has been uploaded and is uploaded still, none of them is on local storage,
\* and the run ends with the completion reply and no failure notification.
C6_CalendarIsolated ==
    \A t \in Threads :
        th[t].cal_failed =>
            /\ th[t].pc \in {"reply", "done"}
            /\ th[t].returned = NFiles(th[t])
            /\ \A k \in DOMAIN th[t].session.files :
                /\ local[th[t].session.files[k]] = NoFile
                /\ th[t].session.files[k] \in Names(uploads)
            /\ th[t].session.texts # <<>> =>
                /\ local[th[t].log_filename] # Transcript(th[t].session)
                /\ th[t].log_filename \in Names(uploads)
            /\ th[t].pc = "done" =>
                /\ th[t].outcome = "completion"
                /\ th[t].sent = <<"processing", "completion">>

\* A run uploaded a transcript and an attachment, inserted one event, failed
\* at the next insertion and ended with the completion reply.
C6_Witness ==
    \E t \in Threads :
        /\ th[t].cal_failed /\ th[t].pc = "done" /\ th[t].outcome = "completion"
        /\ th[t].inserted = 1
        /\ th[t].returned >= 1

UploadsOf(content) == Cardinality({i \in DOMAIN uploads : uploads[i].content = content})

\* C7 (as claimed; the code does otherwise): after a run that ends with the
\* completion reply, no attachment of the session and no transcript of it is
\* on local storage, and each was uploaded exactly once.
C7_UploadedOnceAndRemoved ==
    \A t \in Threads :
        (th[t].pc = "done" /\ th[t].outcome = "completion") =>
            /\ \A k \in DOMAIN th[t].session.files :
                /\ local[th[t].session.files[k]] = NoFile
                /\ UploadsOf(Bytes(th[t].session.files[k][2])) = 1
            /\ th[t].session.texts # <<>> =>
                /\ \A p \in Paths : local[p] # Transcript(th[t].session)
                /\ UploadsOf(Transcript(th[t].session)) = 1

\* C8 (as claimed; the code does otherwise): when the upload of a file of the
\* batch raises (0: the transcript, k: the k-th attachment), the files before
\* it, and only they, have been uploaded and deleted, the file itself and those
\* after it are on local storage, and the run ends with the failure
\* notification.
C8_FailedUploadLeavesRest ==
    \A t \in Threads :
        th[t].upload_failed >= 0 =>
            LET r == th[t]
                i == r.upload_failed
            IN  /\ r.pc = "done" /\ r.outcome = "failed"
                /\ r.sent = <<"processing", "fail">>
                /\ i = 0 => local[r.log_filename] # NoFile
                /\ \A k \in DOMAIN r.session.files :
                    IF k < i THEN local[r.session.files[k]] = NoFile
                    ELSE local[r.session.files[k]] # NoFile
                /\ r.returned = (IF i = 0 THEN 0
                                 ELSE i - 1 + (IF r.session.texts # <<>> THEN 1 ELSE 0))

NoDuplicates(fs) ==
    \A f, g \in fs :
        (f.parent = g.parent /\ f.name = g.name /\ ~f.trashed /\ ~g.trashed) => f = g

\* C9: resolver calls made one after the other are idempotent: a call creates
\* at most one folder at each level, a call that repeats the one before it
\* returns the same identifier and creates no folder, and no parent ever holds
\* two folders of one name that are not trashed.
C9_ResolverIdempotent ==
    fn.name = "resolver" =>
        /\ fn.created[1] <= 1 /\ fn.created[2] <= 1
        /\ fn.repeat => (fn.last = fn.prev /\ fn.created = <<0, 0>>)
        /\ NoDuplicates(folders)

\* A call created both folders and the same call made again returned the
\* same identifier.
C9_Witness ==
    /\ fn.name = "resolver" /\ fn.repeat
    /\ fn.prev_created = <<1, 1>>
    /\ fn.last = fn.prev /\ fn.last # 0

InFlight(u) ==
    \E t \in Threads : th[t].user = u /\ th[t].pc \in {"download", "add_check", "add_append"}

\* C10 (as claimed; the code does otherwise): after one start, the text buffer
\* of the session is the texts received for it, in the order they arrived,
\* once the handlers of the user's messages have finished, whatever
\* attachments came in between.
C10_ArrivalOrder ==
    \A u \in DOMAIN user_sessions :
        (nSessions = 1 /\ ~InFlight(u)) => user_sessions[u].texts = user_sessions[u].recv

ContentKinds == {"text", "image", "file"}

\* A thread enters handle_message with a message that is no command, of a
\* user who has no session.
IdleContentStep(t) ==
    /\ th[t].pc = "idle" /\ th'[t].pc # "idle"
    /\ th'[t].msg.kind \in ContentKinds
    /\ th'[t].user \notin DOMAIN user_sessions

StartWords == {"KAISHI", "start"}
EndWords == {"JIESHU", "end"}

\* The stripped text, letter case set aside, begins with one of the words.
BeginsWith(raw, words) ==
    \E n \in 1..Len(Strip(raw)) : \E w \in words : SubSeq(lower(Strip(raw)), 1, n) = <<w>>

\* The stripped text, letter case set aside, is one of the words.
IsWord(raw, words) == \E w \in words : lower(Strip(raw)) = <<w>>

\* C12 (as claimed; the code does otherwise): both commands are recognized by
\* a case-insensitive prefix match: a text that begins with a start word is
\* a start, and a text that begins with an end word, whatever follows it, is
\* an end and no content.
C12_PrefixMatch ==
    (fn.name = "command" /\ fn.done) =>
        /\ BeginsWith(fn.text, StartWords) => fn.out.kind = "start"
        /\ BeginsWith(fn.text, EndWords) => fn.out.kind = "end"

\* C12 (amended): the start command is recognized by a case-insensitive
\* prefix match and the end command by a case-insensitive match of the whole
\* stripped text: a text is a start exactly when it begins with a start word,
\* an end exactly when it is an end word, and a text that begins with an end
\* word followed by further characters is content like any other text.
C12_StartPrefixEndExact ==
    (fn.name = "command" /\ fn.done) =>
        /\ fn.out.kind = "start" <=> BeginsWith(fn.text, StartWords)
        /\ fn.out.kind = "end" <=> IsWord(fn.text, EndWords)
        /\ (BeginsWith(fn.text, EndWords) /\ ~IsWord(fn.text, EndWords)) =>
                fn.out.kind = "content"

\* The text END, in upper case and between spaces, was taken as an end.
C12_Witness ==
    /\ fn.name = "command" /\ fn.done
    /\ fn.text = <<"WS", "END", "WS">>
    /\ fn.out.kind = "end"

\* The thread runs (or has run) the pipeline of an end command.
InPipeline(r) == r.msg.kind = "end" /\ r.session.sid > 0

\* Some attempt of the analysis call returned, both folder levels were
\* resolved, and no upload raised.
AnalysisSucceeded(r) == r.calls > r.svc_raised
ResolutionSucceeded(r) == r.folder_id # ROOT
UploadsSucceeded(r) == r.upload_failed = -1

\* C13 (as claimed; the code does otherwise): an end command received while
\* Recording produces the processing acknowledgment first and then one final
\* message and no more: the completion reply if analysis, folder resolution
\* and every upload succeeded, the failure notification otherwise.
C13_OneFinalMessage ==
    \A t \in Threads :
        InPipeline(th[t]) =>
            LET r == th[t] IN
                /\ Head(r.sent) = "processing"
                /\ r.pc # "done" => r.sent = <<"processing">>
                /\ r.pc = "done" =>
                    IF AnalysisSucceeded(r) /\ ResolutionSucceeded(r) /\ UploadsSucceeded(r)
                    THEN r.sent = <<"processing", "completion">>
                    ELSE r.sent = <<"processing", "fail">>

\* The thread has obtained a session with nothing buffered.
EmptyRun(r) == InPipeline(r) /\ r.session.texts = <<>> /\ r.session.files = <<>>

\* The run ended with the completion reply, having called the analysis,
\* resolved the category folder and uploaded nothing.
CompletedEmpty(r) ==
    /\ r.pc = "done" /\ r.outcome = "completion"
    /\ r.sent = <<"processing", "completion">>
    /\ r.calls = 1 /\ r.ai.kind = "dict"
    /\ r.folder_id \in {f.id : f \in folders}
    /\ r.returned = 0
    /\ \A i \in DOMAIN uploads : uploads[i].content.sid # r.session.sid

\* C14: with every external service succeeding, the pipeline of an end that
\* follows a start with nothing buffered runs to completion: the analysis is
\* called, the folder path is resolved, no transcript and no attachment is
\* uploaded, and the user receives the completion reply.
C14_EmptySessionCompletes ==
    \A t \in Threads :
        (th[t].pc = "analyze" /\ EmptyRun(th[t])) ~> (EmptyRun(th[t]) /\ CompletedEmpty(th[t]))

\* The run of an empty session has ended with the completion reply while the
\* other user is recording, with a text buffered.
C14_Witness ==
    \E t \in Threads :
        /\ EmptyRun(th[t]) /\ CompletedEmpty(th[t])
        /\ \E u \in DOMAIN user_sessions : user_sessions[u].texts # <<>>

FolderIds(fs) == {f.id : f \in fs}

IsPrefix(a, b) == Len(a) <= Len(b) /\ SubSeq(b, 1, Len(a)) = a

\* A folder search, a folder creation or an upload of the thread raised.
ArchivalRaised(t) ==
    \/ th[t].pc \in {"search", "create"} /\ th'[t].outcome = "failed"
            /\ th'[t].folder_id = ROOT /\ folders' = folders
    \/ th[t].pc = "upload" /\ th'[t].upload_failed >= 0

\* C15: the steps of a pipeline run are in order and a failure of the
\* archival ends it: a file is uploaded only by a run that has resolved both
\* folder levels, into the category folder; the calendar is reached only
\* after every file of the batch was uploaded; when a folder search, a folder
\* creation or an upload raises, the run ends there (the call is not made
\* again, the failure notification is sent), it has inserted and inserts no
\* event; and no folder and no uploaded file is ever taken back.
C15_OrderedAndAborting ==
    [][/\ \A t \in Threads :
            /\ th'[t].returned > th[t].returned =>
                /\ th[t].level = 2 /\ th[t].folder_id \in FolderIds(folders)
                /\ uploads'[Len(uploads')].folder = th[t].folder_id
                /\ \E f \in folders : f.id = th[t].folder_id /\ f.parent \in FolderIds(folders)
            /\ (th'[t].pc \in {"cal_build", "cal_insert"} \/ th'[t].inserted > 0) =>
                /\ th'[t].returned = NFiles(th'[t])
                /\ th'[t].upload_failed = -1
            /\ ArchivalRaised(t) =>
                /\ th'[t].pc = "done" /\ th'[t].sent = <<"processing", "fail">>
                /\ th'[t].inserted = 0 /\ calendar' = calendar
                /\ uploads' = uploads
            /\ th[t].pc = "done" => th'[t].pc \in {"done", "idle"}
       /\ folders \subseteq folders'
       /\ IsPrefix(uploads, uploads')
       /\ Len(uploads') > Len(uploads) => \E t \in Threads : th'[t].returned > th[t].returned]_vars

\* The upload of an attachment raised in a run whose analysis held calendar
\* drafts: the run has ended, both folders it created are there and the
\* calendar is empty.
C15_Witness ==
    \E t \in Threads :
        /\ th[t].pc = "done" /\ th[t].upload_failed = 1
        /\ HasEvents(th[t].ai)
        /\ Cardinality(folders) = 2
        /\ calendar = 0

\* The attempts of func that raise before the first one that returns (all of
\* them when every attempt raises).
RECURSIVE RaisesBefore(_, _)
RaisesBefore(func, k) ==
    IF k > RETRIES \/ func[k] # "raise" THEN 0 ELSE 1 + RaisesBefore(func, k + 1)

\* C16 (as claimed; the code does otherwise): retry(func) calls func at most
\* RETRIES times, returns the result of the first attempt that does not
\* raise and calls func no more, raises its terminal error exactly when all
\* the attempts raised, and waits only between two attempts (an exhausted
\* run has RETRIES attempts and RETRIES - 1 delays).
C16_RetryContract ==
    fn.name = "retry" =>
        LET k == RaisesBefore(fn.func, 1) IN
            /\ fn.calls <= RETRIES
            /\ fn.pc = "returned" =>
                /\ k < RETRIES /\ fn.calls = k + 1
                /\ fn.result = fn.func[k + 1]
                /\ fn.delays = k
            /\ fn.pc = "raised" =>
                /\ k = RETRIES /\ fn.calls = RETRIES
                /\ fn.delays = RETRIES - 1
            /\ (k = RETRIES /\ fn.calls = RETRIES /\ fn.pc # "except") => fn.pc = "raised"

\* C17 (as claimed; the code does otherwise): every result that
\* analyze_batch_content hands to the pipeline, from the success path as from
\* the fallback paths, is a record with all of source, category, summary,
\* tags and calendar_events, so that a run whose folders are resolved does
\* not fail before its first upload.
C17_SameShape ==
    \A t \in Threads :
        th[t].ai # NoResult =>
            /\ th[t].ai.kind = "dict"
            /\ th[t].ai.fields = FieldNames
            /\ (th[t].folder_id # ROOT /\ th[t].returned = 0 /\ th[t].upload_failed = -1) =>
                    th[t].outcome # "failed"

\* The run has ended with the completion reply and the transcript of its own
\* session is on the Drive, once, under the name the run gave it.
OwnTranscriptArchived(r) ==
    /\ r.outcome = "completion"
    /\ Cardinality({i \in DOMAIN uploads :
            uploads[i].name = r.log_filename /\ uploads[i].content = Transcript(r.session)}) = 1

\* C18 (as claimed; the code does otherwise): the end pipelines of two
\* different users that run at the same time, within one clock second too,
\* are independent: each ends with the completion reply having uploaded a
\* transcript with the context label and the texts of its own session.
C18_UsersIndependent ==
    \A t1, t2 \in Threads :
        (/\ InPipeline(th[t1]) /\ InPipeline(th[t2])
         /\ th[t1].user # th[t2].user
         /\ th[t1].session.texts # <<>> /\ th[t2].session.texts # <<>>
         /\ th[t1].pc = "done") => OwnTranscriptArchived(th[t1])

\* The create call of the thread returns, for a name that, since its search
\* found nothing, another call has created under the same parent.
LateCreate(t) ==
    /\ th[t].pc = "create" /\ th'[t].pc # "create"
    /\ ~(th'[t].outcome = "failed" /\ folders' = folders)
    /\ Matches(folders, th[t].parent, FolderName(th[t])) # {}

\* The identifier the thread holds for the folder it has just got.
Held(r) == IF r.level = 2 /\ r.pc = "search" THEN r.parent ELSE r.folder_id

\* C19: search-then-create is not atomic: when two calls for one new name
\* under one parent have both searched before either creates, the second
\* creation adds a second folder of that name, not trashed, under the parent,
\* and its caller holds an identifier other than that of the first.
C19_CreateAfterStaleSearch ==
    [][\A t \in Threads : LateCreate(t) =>
        LET same == Matches(folders', th[t].parent, FolderName(th[t])) IN
            /\ Cardinality(same) = Cardinality(Matches(folders, th[t].parent, FolderName(th[t]))) + 1
            /\ \E f \in same \ folders :
                /\ f.id \notin FolderIds(folders)
                /\ Held(th'[t]) = f.id]_vars

\* Two folders of one name, not trashed, are under the root and the two
\* threads go on below different ones.
C19_Witness ==
    \E f, g \in folders :
        /\ f # g /\ f.parent = ROOT /\ g.parent = ROOT /\ f.name = g.name
        /\ ~f.trashed /\ ~g.trashed
        /\ th[1].level = 2 /\ th[2].level = 2
        /\ th[1].pc = "search" /\ th[2].pc = "search"
        /\ {th[1].parent, th[2].parent} = {f.id, g.id}

Range(seq) == {seq[i] : i \in DOMAIN seq}

\* The path is in the attachment buffer of a session, in the store or held
\* by a pipeline run, or is about to be put there by a handler.
Referenced(p, store, threads) ==
    \/ \E u \in DOMAIN store : p \in Range(store[u].files)
    \/ \E t \in Threads : p \in Range(threads[t].session.files)
    \/ \E t \in Threads : threads[t].pc \in {"add_check", "add_append"} /\ threads[t].saved_path = p

\* A downloaded attachment that no session refers to and that was not uploaded.
Abandoned(p, files, store, threads, ups) ==
    /\ files[p].kind = "bytes"
    /\ ~Referenced(p, store, threads)
    /\ p \notin Names(ups)

\* C20: a start received while Recording with attachments buffered replaces
\* the session and leaves local storage and the Drive as they are: the files
\* of the replaced session are on local storage still, not uploaded, and no
\* session refers to them; and a file that no session refers to stays as it
\* is from then on, whatever pipelines run later.
C20_ReplacedFilesAbandoned ==
    [][/\ \A t \in Threads : (StartStep(t) /\ th'[t].replaced.files # <<>>) =>
            /\ local' = local /\ uploads' = uploads
            /\ \A p \in Range(th'[t].replaced.files) :
                    Abandoned(p, local', user_sessions', th', uploads')
       /\ \A p \in Paths : Abandoned(p, local, user_sessions, th, uploads) =>
            /\ local'[p] = local[p]
            /\ Abandoned(p, local', user_sessions', th', uploads')]_vars

\* A start has replaced a session with an attachment, the session after it
\* was archived with an attachment of its own, and the file of the replaced
\* session is on local storage, not uploaded.
C20_Witness ==
    \E t1, t2 \in Threads :
        /\ th[t1].pc = "done" /\ th[t1].msg.kind = "start" /\ th[t1].replaced.files # <<>>
        /\ th[t2].pc = "done" /\ th[t2].outcome = "completion" /\ th[t2].returned = 1
        /\ th[t2].user = th[t1].user
        /\ Abandoned(th[t1].replaced.files[1], local, user_sessions, th, uploads)

====
